---- MODULE Spec2Model ----
(***************************************************************************)
(* AlphaPunch (src/App.tsx): the App component's state, its event handlers *)
(* and the asynchronous continuations of handleImageSelect and             *)
(* handleGenerate, as one state machine.                                   *)
(*                                                                         *)
(* Every handler and every continuation after an await runs to completion  *)
(* on the single JavaScript thread, so each is one atomic action; the      *)
(* external calls (editImageWithGemini, analyzeImageScene) and the image   *)
(* decodes (new Image(); img.src = ...) complete in any order.             *)
(*                                                                         *)
(* Not modelled: mimeType, usePro and fullViewImage.  They are only passed *)
(* through to the external calls or to the modal overlay and no modelled   *)
(* state depends on them.                                                  *)
(***************************************************************************)
EXTENDS Integers, Sequences, FiniteSets, TLC

VARIABLES
    status,          \* useState<AppStatus>
    sourceImage,     \* useState<string | null>
    originalDims,    \* useState<{w, h} | null>
    generatedImage,  \* useState<string | null>
    prompt,          \* useState<string>
    error,           \* useState<string | null>
    analysis,        \* useState<string | null>
    history,         \* useState<HistoryItem[]>
    gens,            \* handleGenerate invocations suspended at an await
    analyses,        \* handleImageSelect invocations awaiting analyzeImageScene
    loads,           \* Image objects of handleImageSelect whose onload is pending
    clock,           \* Date.now()
    pushLog,         \* history variable: every entry ever given to setHistory
    last,            \* history variable: the step taken last
    events,          \* bookkeeping: user events so far (bounds the model)
    canvas           \* tempCanvas of one processImageTransparency call

\* Everything but the canvas
appVars == <<status, sourceImage, originalDims, generatedImage, prompt, error,
             analysis, history, gens, analyses, loads, clock, pushLog, last,
             events>>

vars == <<status, sourceImage, originalDims, generatedImage, prompt, error,
          analysis, history, gens, analyses, loads, clock, pushLog, last,
          events, canvas>>

\* The application state a user can observe.
appState == <<status, sourceImage, originalDims, generatedImage, prompt, error,
              analysis, history>>

-----------------------------------------------------------------------------
(* Bounds of the model *)

\* Spec: image selections and clicks on PUNCH ALPHA in one run
MaxEvents == 4
\* SpecPrompt: image selections and clicks on PUNCH ALPHA in one run
MaxEventsPrompt == 3
\* SpecSteps: image selections and clicks on PUNCH ALPHA in one run
MaxEventsSteps == 3
\* SpecPixel: pixels of a decoded image
MaxPixels == 2
\* SpecIds: image selections and clicks in one run, and advances of the clock
MaxEventsIds == 4
MaxTicksIds == 2
\* SpecHist: successful generations in one run, and advances of the clock
MaxPushesHist == 12
MaxTicksHist == 2
\* The reading of Date.now() in the initial state
ClockStart == 9

-----------------------------------------------------------------------------
(* Values *)

\* enum AppStatus
AppStatus == {"IDLE", "PROCESSING", "SUCCESS", "ERROR"}

\* JavaScript null (string-typed state) and undefined (number-typed argument)
Null == "null"
Undefined == 0 - 1

\* The texts of the two PRESETS
PRESETS == <<"window-punch", "remove-bg">>

\* Images a user can upload, and images the edit service can return, each
\* with the width and height it decodes to.
Images == {"imgA", "imgB"}
EditOutputs == {"editWide", "editTiny"}

\* An image the edit service can return that loads with no pixels: img.width
\* and img.height are 0
EmptyOutputs == {"editEmpty"}

NativeDims(img) ==
    CASE img = "imgA"     -> [w |-> 2, h |-> 1]
      [] img = "imgB"     -> [w |-> 1, h |-> 2]
      [] img = "editWide" -> [w |-> 2, h |-> 1]
      [] img = "editTiny" -> [w |-> 1, h |-> 1]
      [] img = "editEmpty" -> [w |-> 0, h |-> 0]

\* originalDims === null
NullDims == [isNull |-> TRUE]

\* generatedImage === null
NoImage == [isNull |-> TRUE]

\* No processImageTransparency call is followed pixel by pixel
NoCanvas == [pc |-> "none"]

\* Channel values of the pixels drawn: around minGreen and around a
\* dominance of exactly dominanceThreshold, and the extremes
Channels == {0, 30, 31, 40, 41, 200, 255}

\* The canvas stores colours premultiplied by alpha, so getImageData returns
\* a partly transparent pixel only with channel values the canvas holds
\* exactly at that alpha.  At alpha 128 these are among them.
TranslucentAlpha == 128
TranslucentChannels == {0, 30, 40, 42, 255}

\* The pixels getImageData returns for the images of one pixel
Pixels ==
    {<<r, g, b, 255>> : r \in Channels, g \in Channels, b \in Channels}
    \cup {<<r, g, b, TranslucentAlpha>> :
            r \in TranslucentChannels, g \in TranslucentChannels,
            b \in TranslucentChannels}

\* Pixels of the buffers of more than one pixel: pure green, grey, white,
\* and pixels just over and exactly on the thresholds
SamplePixels ==
    {<<0, 255, 0, 255>>, <<200, 200, 200, 255>>, <<255, 255, 255, 255>>,
     <<30, 42, 30, 128>>, <<30, 40, 30, 255>>, <<31, 41, 0, 255>>}

\* imageData.data of n pixels
RECURSIVE Buffers(_)
Buffers(n) ==
    IF n = 0 THEN {<<>>}
    ELSE {p \o d : p \in SamplePixels, d \in Buffers(n - 1)}

\* The decoded images: img.width, img.height and the bytes getImageData
\* returns, 4 * w * h of them
DecodedImages ==
    {[w |-> 1, h |-> 1, data |-> px] : px \in Pixels}
    \cup UNION {{[w |-> n, h |-> 1, data |-> d] : d \in Buffers(n)} :
                   n \in 2..MaxPixels}
    \cup UNION {{[w |-> 1, h |-> n, data |-> d] : d \in Buffers(n)} :
                   n \in 2..MaxPixels}

\* The targets processImageTransparency is called with: originalDims?.w and
\* originalDims?.h of a null originalDims, or the size of a decoded image
Targets ==
    {[w |-> Undefined, h |-> Undefined]}
    \cup {[w |-> tw, h |-> th] : tw \in 1..(MaxPixels + 1), th \in 1..MaxPixels}

\* Messages a rejected edit call can carry (e.message may be empty)
EditErrors == {"", "edit failed"}

\* A rejection whose value is null or undefined
NullRejection == [isNull |-> TRUE]

\* The values editImageWithGemini can reject with (catch (e: any)): null or
\* undefined, or an object with a message
EditRejections == {NullRejection} \cup {[message |-> m] : m \in EditErrors}

\* JavaScript truthiness of an optional number
Truthy(n) == n # Undefined /\ n # 0

\* originalDims?.w and originalDims?.h
OptW(d) == IF d = NullDims THEN Undefined ELSE d.w
OptH(d) == IF d = NullDims THEN Undefined ELSE d.h

-----------------------------------------------------------------------------
(* Pure helpers *)

\* One decimal digit as a string
Digit(d) ==
    CASE d = 0 -> "0" [] d = 1 -> "1" [] d = 2 -> "2" [] d = 3 -> "3"
      [] d = 4 -> "4" [] d = 5 -> "5" [] d = 6 -> "6" [] d = 7 -> "7"
      [] d = 8 -> "8" [] d = 9 -> "9"

\* Number.prototype.toString() of a non-negative integer
RECURSIVE NumberToString(_)
NumberToString(n) ==
    IF n < 10 THEN Digit(n) ELSE NumberToString(n \div 10) \o Digit(n % 10)

\* The closure `resize` of processImageTransparency: the encoded image is
\* described by the image it was drawn from and its width and height.
\* finalCtx is whether finalCanvas.getContext('2d') returned a context.
resize(base64Str, w, h, targetWidth, targetHeight, finalCtx) ==
    IF Truthy(targetWidth) /\ Truthy(targetHeight)
         /\ (targetWidth # w \/ targetHeight # h)
    THEN IF ~finalCtx
         THEN [from |-> base64Str, w |-> w, h |-> h]
         ELSE [from |-> base64Str, w |-> targetWidth, h |-> targetHeight]
    ELSE [from |-> base64Str, w |-> w, h |-> h]

\* tempCtx.getImageData(0, 0, w, h) throws (IndexSizeError) when w or h is 0.
\* The exception leaves img.onload: the promise is never settled.
getImageDataThrows(base64Str) ==
    NativeDims(base64Str).w = 0 \/ NativeDims(base64Str).h = 0

\* What processImageTransparency resolves with once img.onload has fired,
\* the temporary canvas has a context and getImageData has returned.
processImageTransparency(base64Str, targetWidth, targetHeight, finalCtx) ==
    resize(base64Str, NativeDims(base64Str).w, NativeDims(base64Str).h,
           targetWidth, targetHeight, finalCtx)

\* const minGreen = 40; const dominanceThreshold = 10;
minGreen == 40
dominanceThreshold == 10

\* Mutant of isGreen: the comparisons are not strict
isGreenInclusive(r, g, b) ==
    g >= r + dominanceThreshold /\ g >= b + dominanceThreshold /\ g >= minGreen

\* const isGreen = g > r + dominanceThreshold && g > b + dominanceThreshold
\*                 && g > minGreen
isGreen(r, g, b) ==
    g > r + dominanceThreshold /\ g > b + dominanceThreshold /\ g > minGreen

\* Mutant of KeyPixel: the alpha of a green pixel is halved
KeyPixelHalvesAlpha(data, i) ==
    IF isGreen(data[i + 1], data[i + 2], data[i + 3])
    THEN [data EXCEPT ![i + 4] = data[i + 4] \div 2]
    ELSE data

\* The body of the for loop at offset i of imageData.data (offsets are
\* 0-based in the source, sequences 1-based here): r = data[i],
\* g = data[i + 1], b = data[i + 2]; if (isGreen) data[i + 3] = 0
KeyPixel(data, i) ==
    IF isGreen(data[i + 1], data[i + 2], data[i + 3])
    THEN [data EXCEPT ![i + 4] = 0]
    ELSE data

\* for (let i = ...; i < data.length; i += 4), from offset i on
RECURSIVE KeyLoop(_, _)
KeyLoop(data, i) ==
    IF i < Len(data) THEN KeyLoop(KeyPixel(data, i), i + 4) ELSE data

\* tempCtx.putImageData(imageData, 0, 0): what tempCanvas holds afterwards.
\* The canvas stores colours premultiplied by alpha: a pixel of alpha 0 is
\* stored, and encoded by toDataURL, as (0, 0, 0, 0); the other pixels of
\* the buffer are pixels the canvas held before and are stored as they are.
putImageData(data) ==
    [j \in 1..Len(data) |->
        IF data[4 * ((j - 1) \div 4) + 4] = 0 THEN 0 ELSE data[j]]

\* The capacity of the history list: .slice(0, 10)
HistoryCapacity == 10

\* Array.prototype.slice(0, n)
Slice0(s, n) == SubSeq(s, 1, IF Len(s) < n THEN Len(s) ELSE n)

\* Mutants of HistoryUpdate: the slice is forgotten; the item is put last
HistoryUpdateNoSlice(item, prev) == <<item>> \o prev
HistoryUpdateAtBack(item, prev) == Slice0(prev \o <<item>>, HistoryCapacity)

\* The updater given to setHistory: [item, ...prev].slice(0, 10)
HistoryUpdate(item, prev) == Slice0(<<item>> \o prev, HistoryCapacity)

\* The HistoryItem built on success; idNow and timestampNow are the two
\* readings of Date.now().
HistoryItem(idNow, timestampNow, src, finalImage, promptUsed) ==
    [id |-> NumberToString(idNow),
     timestamp |-> timestampNow,
     original |-> src,
     generated |-> finalImage,
     promptUsed |-> promptUsed,
     thumbnail |-> finalImage]

\* Value of the history variable `last` after a completion: the status
\* before it is not recorded
Completed(op) == [op |-> op, pre |-> "-"]

\* Value of the history variable `last` after a step no property refers to
Quiet == [op |-> "other", pre |-> "IDLE"]

\* e.message || "Failed to process image."
ErrorText(message) ==
    IF message = "" \/ message = Null THEN "Failed to process image." ELSE message

\* The text analyzeImageScene resolves with for an image
SceneOf(img) == "scene of " \o img

\* s without its i-th element
RemoveAt(s, i) == SubSeq(s, 1, i - 1) \o SubSeq(s, i + 1, Len(s))

\* Edit calls that have not resolved yet
EditOutstanding == {i \in DOMAIN gens : gens[i].pc = "edit"}

-----------------------------------------------------------------------------
(* Initial state: the useState initialisers of App; nothing is in flight *)

AppInit ==
    /\ status = "IDLE"
    /\ sourceImage = Null
    /\ originalDims = NullDims
    /\ generatedImage = NoImage
    /\ prompt = PRESETS[1]
    /\ error = Null
    /\ analysis = Null
    /\ history = <<>>
    /\ gens = <<>>
    /\ analyses = <<>>
    /\ loads = [img \in Images |-> 0]
    /\ clock = ClockStart
    /\ pushLog = <<>>
    /\ last = [op |-> "init", pre |-> "IDLE"]
    /\ events = 0

\* In the specifications of App the pixels of the canvas are not followed:
\* an encoded image is described by its origin, width and height.
Init == AppInit /\ canvas = NoCanvas

-----------------------------------------------------------------------------
(* Image selection and its two asynchronous tails *)

\* Mutant of handleImageSelect: setAnalysis(null) is forgotten
handleImageSelectKeepsAnalysis(base64) ==
    /\ loads' = [loads EXCEPT ![base64] = @ + 1]
    /\ sourceImage' = base64
    /\ generatedImage' = NoImage
    /\ status' = "IDLE"
    /\ error' = Null
    /\ analyses' = Append(analyses, base64)
    /\ gens' = [i \in DOMAIN gens |->
                  IF gens[i].pc = "edit"
                  THEN [gens[i] EXCEPT !.selAfter = TRUE]
                  ELSE gens[i]]
    /\ last' = [op |-> "select", pre |-> status]
    /\ UNCHANGED <<originalDims, prompt, history, clock, pushLog, analysis>>

\* handleImageSelect(base64, type), up to the await: a new Image starts
\* loading, the state is reset and analyzeImageScene is called.
\* (selAfter of a suspended generation is a history field: a source image
\* was selected while its edit call was outstanding.)
handleImageSelect(base64) ==
    /\ loads' = [loads EXCEPT ![base64] = @ + 1]
    /\ sourceImage' = base64
    /\ generatedImage' = NoImage
    /\ status' = "IDLE"
    /\ error' = Null
    /\ analysis' = Null
    /\ analyses' = Append(analyses, base64)
    /\ gens' = [i \in DOMAIN gens |->
                  IF gens[i].pc = "edit"
                  THEN [gens[i] EXCEPT !.selAfter = TRUE]
                  ELSE gens[i]]
    /\ last' = [op |-> "select", pre |-> status]
    /\ UNCHANGED <<originalDims, prompt, history, clock, pushLog>>

\* img.onload of handleImageSelect: setOriginalDims({w: img.width, h: img.height})
ImageOnload(img) ==
    /\ loads[img] > 0
    /\ loads' = [loads EXCEPT ![img] = @ - 1]
    /\ originalDims' = NativeDims(img)
    /\ last' = Quiet
    /\ UNCHANGED <<status, sourceImage, generatedImage, prompt, error, analysis,
                   history, gens, analyses, clock, pushLog>>

\* analyzeImageScene resolves: setAnalysis(result)
AnalysisResolve(k) ==
    /\ k \in DOMAIN analyses
    /\ analysis' = SceneOf(analyses[k])
    /\ analyses' = RemoveAt(analyses, k)
    /\ last' = Quiet
    /\ UNCHANGED <<status, sourceImage, originalDims, generatedImage, prompt,
                   error, history, gens, loads, clock, pushLog>>

\* Mutant of AnalysisReject: the catch reports the failure as an error
AnalysisRejectSetsError(k) ==
    /\ k \in DOMAIN analyses
    /\ analyses' = RemoveAt(analyses, k)
    /\ error' = "Analysis failed"
    /\ status' = "ERROR"
    /\ last' = Completed("analysisFail")
    /\ UNCHANGED <<sourceImage, originalDims, generatedImage, prompt,
                   analysis, history, gens, loads, clock, pushLog>>

\* analyzeImageScene rejects: the catch only logs
AnalysisReject(k) ==
    /\ k \in DOMAIN analyses
    /\ analyses' = RemoveAt(analyses, k)
    /\ last' = Completed("analysisFail")
    /\ UNCHANGED <<status, sourceImage, originalDims, generatedImage, prompt,
                   error, analysis, history, gens, loads, clock, pushLog>>

\* A preset button: setPrompt(preset.text)
setPrompt(text) ==
    /\ prompt' = text
    /\ last' = Quiet
    /\ UNCHANGED <<status, sourceImage, originalDims, generatedImage, error,
                   analysis, history, gens, analyses, loads, clock, pushLog>>

\* Mutant of HistorySelect: setStatus(AppStatus.SUCCESS) is forgotten
HistorySelectKeepsStatus(k) ==
    /\ k \in DOMAIN history
    /\ sourceImage' = history[k].original
    /\ generatedImage' = history[k].generated
    /\ last' = [op |-> "historySelect", pre |-> status]
    /\ UNCHANGED <<originalDims, prompt, error, analysis, history, gens,
                   analyses, loads, clock, pushLog, status>>

\* Mutant of HistorySelect: setGeneratedImage(item.generated) is forgotten
HistorySelectKeepsImage(k) ==
    /\ k \in DOMAIN history
    /\ sourceImage' = history[k].original
    /\ status' = "SUCCESS"
    /\ last' = [op |-> "historySelect", pre |-> status]
    /\ UNCHANGED <<originalDims, generatedImage, prompt, error, analysis,
                   history, gens, analyses, loads, clock, pushLog>>

\* onClick of a history thumbnail (and of its overlay): the entry becomes
\* the current source and generated image
HistorySelect(k) ==
    /\ k \in DOMAIN history
    /\ sourceImage' = history[k].original
    /\ generatedImage' = history[k].generated
    /\ status' = "SUCCESS"
    /\ last' = [op |-> "historySelect", pre |-> status]
    /\ UNCHANGED <<originalDims, prompt, error, analysis, history, gens,
                   analyses, loads, clock, pushLog>>

\* Date.now() advances
Tick ==
    /\ clock' = clock + 1
    /\ UNCHANGED <<status, sourceImage, originalDims, generatedImage, prompt,
                   error, analysis, history, gens, analyses, loads, pushLog,
                   last>>

-----------------------------------------------------------------------------
(* Generation: handleGenerate and its continuations *)

\* The disabled attribute of the PUNCH ALPHA button
GenerateDisabled == sourceImage = Null \/ status = "PROCESSING"

\* Mutant of handleGenerate: the `if (!sourceImage) return` is forgotten
handleGenerateNoGuard ==
    /\ status' = "PROCESSING"
    /\ error' = Null
    /\ generatedImage' = NoImage
    /\ gens' = Append(gens, [src |-> sourceImage,
                             prompt |-> prompt,
                             dims |-> originalDims,
                             pc |-> "edit",
                             result |-> Null,
                             histBefore |-> history,
                             genBefore |-> generatedImage,
                             selAfter |-> FALSE])
    /\ last' = [op |-> "generate", pre |-> status]
    /\ UNCHANGED <<sourceImage, originalDims, prompt, analysis, history,
                   analyses, loads, clock, pushLog>>

\* Mutant of handleGenerate: setError(null) is forgotten
handleGenerateKeepsError ==
    IF sourceImage = Null
    THEN /\ last' = [op |-> "generateNoSource", pre |-> status]
         /\ UNCHANGED <<status, sourceImage, originalDims, generatedImage,
                        prompt, error, analysis, history, gens, analyses,
                        loads, clock, pushLog>>
    ELSE /\ status' = "PROCESSING"
         /\ generatedImage' = NoImage
         /\ gens' = Append(gens, [src |-> sourceImage,
                                  prompt |-> prompt,
                                  dims |-> originalDims,
                                  pc |-> "edit",
                                  result |-> Null,
                                  histBefore |-> history,
                                  genBefore |-> generatedImage,
                                  selAfter |-> FALSE])
         /\ last' = [op |-> "generate", pre |-> status]
         /\ UNCHANGED <<sourceImage, originalDims, prompt, analysis, history,
                        analyses, loads, clock, pushLog, error>>

\* handleGenerate, up to the first await.  The suspended invocation keeps
\* the sourceImage, prompt and originalDims of the render it was created in.
\* (histBefore, genBefore and selAfter are history fields: the history and
\* the generated image just before the request, and whether a source image
\* has been selected while the edit call was outstanding.)
handleGenerate ==
    IF sourceImage = Null
    THEN /\ last' = [op |-> "generateNoSource", pre |-> status]
         /\ UNCHANGED <<status, sourceImage, originalDims, generatedImage,
                        prompt, error, analysis, history, gens, analyses,
                        loads, clock, pushLog>>
    ELSE /\ status' = "PROCESSING"
         /\ error' = Null
         /\ generatedImage' = NoImage
         /\ gens' = Append(gens, [src |-> sourceImage,
                                  prompt |-> prompt,
                                  dims |-> originalDims,
                                  pc |-> "edit",
                                  result |-> Null,
                                  histBefore |-> history,
                                  genBefore |-> generatedImage,
                                  selAfter |-> FALSE])
         /\ last' = [op |-> "generate", pre |-> status]
         /\ UNCHANGED <<sourceImage, originalDims, prompt, analysis, history,
                        analyses, loads, clock, pushLog>>

\* A click on the PUNCH ALPHA button: a disabled button ignores it
PunchAlphaClick ==
    IF GenerateDisabled
    THEN /\ last' = Quiet
         /\ UNCHANGED <<status, sourceImage, originalDims, generatedImage,
                        prompt, error, analysis, history, gens, analyses,
                        loads, clock, pushLog>>
    ELSE handleGenerate

\* editImageWithGemini resolves with resultBase64: processImageTransparency
\* is called and waits for its Image to load.
EditResolve(i, resultBase64) ==
    /\ i \in DOMAIN gens
    /\ gens[i].pc = "edit"
    /\ gens' = [gens EXCEPT ![i].pc = "decode", ![i].result = resultBase64]
    /\ last' = Quiet
    /\ UNCHANGED <<status, sourceImage, originalDims, generatedImage, prompt,
                   error, analysis, history, analyses, loads, clock, pushLog>>

\* Mutant of GenerateCatch: the catch block also calls setGeneratedImage(null)
GenerateCatchClearsImage(i, e) ==
    IF e = NullRejection
    THEN /\ gens' = RemoveAt(gens, i)
         /\ last' = Completed("catchThrows")
         /\ UNCHANGED <<status, sourceImage, originalDims, generatedImage,
                        prompt, error, analysis, history, analyses, loads,
                        clock, pushLog>>
    ELSE /\ error' = ErrorText(e.message)
         /\ status' = "ERROR"
         /\ generatedImage' = NoImage
         /\ gens' = RemoveAt(gens, i)
         /\ last' = Completed("genFail")
         /\ UNCHANGED <<sourceImage, originalDims, prompt, analysis, history,
                        analyses, loads, clock, pushLog>>

\* The catch block of handleGenerate, entered by invocation i with the
\* rejection value e.  When e is null or undefined, e.message (line 141)
\* throws a TypeError after console.error(e): neither setError nor
\* setStatus runs, and the invocation ends with the state as it was.
GenerateCatch(i, e) ==
    IF e = NullRejection
    THEN /\ gens' = RemoveAt(gens, i)
         /\ last' = Completed("catchThrows")
         /\ UNCHANGED <<status, sourceImage, originalDims, generatedImage,
                        prompt, error, analysis, history, analyses, loads,
                        clock, pushLog>>
    ELSE /\ error' = ErrorText(e.message)
         /\ status' = "ERROR"
         /\ gens' = RemoveAt(gens, i)
         /\ last' = Completed("genFail")
         /\ UNCHANGED <<sourceImage, originalDims, generatedImage, prompt,
                        analysis, history, analyses, loads, clock, pushLog>>

\* editImageWithGemini rejects with the value e
EditReject(i, e) ==
    /\ i \in DOMAIN gens
    /\ gens[i].pc = "edit"
    /\ GenerateCatch(i, e)

\* processImageTransparency rejects with new Error(message): img.onerror,
\* or no 2d context
TransparencyReject(i, message) ==
    /\ i \in DOMAIN gens
    /\ gens[i].pc = "decode"
    /\ GenerateCatch(i, [message |-> message])

\* img.onload of processImageTransparency fires for an image of no pixels
\* and getImageData throws: the promise stays pending and the invocation of
\* handleGenerate stays suspended at its second await for ever.
OnloadThrows(i) ==
    /\ i \in DOMAIN gens
    /\ gens[i].pc = "decode"
    /\ getImageDataThrows(gens[i].result)
    /\ gens' = [gens EXCEPT ![i].pc = "pending"]
    /\ last' = Quiet
    /\ UNCHANGED <<status, sourceImage, originalDims, generatedImage, prompt,
                   error, analysis, history, analyses, loads, clock, pushLog>>

\* The messages processImageTransparency rejects with
TransparencyErrors ==
    {"Canvas context not available", "Failed to process mask transparency"}

\* Mutant of GenerateSuccess: the entry is built from the prompt and the
\* source image current at completion, not from those of the request
GenerateSuccessCurrentState(i, finalCtx, tick) ==
    /\ i \in DOMAIN gens
    /\ gens[i].pc = "decode"
    /\ ~getImageDataThrows(gens[i].result)
    /\ LET t == gens[i]
           finalImage == processImageTransparency(t.result, OptW(t.dims),
                                                  OptH(t.dims), finalCtx)
           item == HistoryItem(clock, clock + tick, sourceImage, finalImage,
                               prompt)
       IN  /\ generatedImage' = finalImage
           /\ history' = HistoryUpdate(item, history)
           /\ pushLog' = Append(pushLog, item)
    /\ status' = "SUCCESS"
    /\ clock' = clock + tick
    /\ gens' = RemoveAt(gens, i)
    /\ last' = Completed("genOk")
    /\ UNCHANGED <<sourceImage, originalDims, prompt, error, analysis,
                   analyses, loads>>

\* processImageTransparency resolves and handleGenerate runs to its end:
\* setGeneratedImage, setHistory, setStatus.  Date.now() is read twice and
\* may advance by `tick` between the readings.
GenerateSuccess(i, finalCtx, tick) ==
    /\ i \in DOMAIN gens
    /\ gens[i].pc = "decode"
    /\ ~getImageDataThrows(gens[i].result)
    /\ LET t == gens[i]
           finalImage == processImageTransparency(t.result, OptW(t.dims),
                                                  OptH(t.dims), finalCtx)
           item == HistoryItem(clock, clock + tick, t.src, finalImage, t.prompt)
       IN  /\ generatedImage' = finalImage
           /\ history' = HistoryUpdate(item, history)
           /\ pushLog' = Append(pushLog, item)
    /\ status' = "SUCCESS"
    /\ clock' = clock + tick
    /\ gens' = RemoveAt(gens, i)
    /\ last' = Completed("genOk")
    /\ UNCHANGED <<sourceImage, originalDims, prompt, error, analysis,
                   analyses, loads>>

-----------------------------------------------------------------------------
(* processImageTransparency, pixel by pixel.  Of the canvas record, input   *)
(* is what getImageData returned, imageData is imageData.data as the loop   *)
(* left it, data is what tempCanvas holds, and first is what it held after  *)
(* the first call.                                                          *)

\* img.onload up to getImageData: tempCanvas holds the decoded image
Drawn(img) ==
    [pc |-> "drawn", w |-> img.w, h |-> img.h, input |-> img.data,
     imageData |-> img.data, data |-> img.data, first |-> img.data,
     target |-> [w |-> Undefined, h |-> Undefined], finalCtx |-> TRUE,
     out |-> NoImage]

\* The for loop over imageData.data and putImageData
ChromaKey ==
    /\ canvas.pc = "drawn"
    /\ LET keyed == KeyLoop(canvas.data, 0)
       IN  canvas' = [canvas EXCEPT !.pc = "keyed",
                                    !.imageData = keyed,
                                    !.data = putImageData(keyed),
                                    !.first = putImageData(keyed)]
    /\ UNCHANGED appVars

\* The same loop and putImageData in a second call, on an image whose
\* pixels are those the first call left on tempCanvas and encoded
ChromaKeyAgain ==
    /\ canvas.pc = "keyed"
    /\ LET keyed == KeyLoop(canvas.data, 0)
       IN  canvas' = [canvas EXCEPT !.pc = "rekeyed",
                                    !.imageData = keyed,
                                    !.data = putImageData(keyed)]
    /\ UNCHANGED appVars

\* resolve(resize(tempCanvas)); finalCtx is whether
\* finalCanvas.getContext('2d') returned a context
ResizeCanvas(target, finalCtx) ==
    /\ canvas.pc = "keyed"
    /\ canvas' = [canvas EXCEPT !.pc = "encoded",
                                !.target = target,
                                !.finalCtx = finalCtx,
                                !.out = resize(canvas.data, canvas.w, canvas.h,
                                               target.w, target.h, finalCtx)]
    /\ UNCHANGED appVars

-----------------------------------------------------------------------------
(* Spec: every interleaving of image selection, history selection,        *)
(* clicks on PUNCH ALPHA and the completions of the calls and decodes they  *)
(* start, for at most MaxEvents selections and clicks.  The prompt and the  *)
(* clock stay as they are.  A generate request can also reach               *)
(* handleGenerate itself while no source image is present (the Button       *)
(* component that renders PUNCH ALPHA is outside the modelled source).      *)

Event == events' = events + 1 /\ canvas' = canvas
NoEvent == events' = events /\ canvas' = canvas

Next ==
    \/ \E base64 \in Images :
          events < MaxEvents /\ handleImageSelect(base64) /\ Event
    \/ \E img \in Images : ImageOnload(img) /\ NoEvent
    \/ \E k \in DOMAIN analyses : AnalysisResolve(k) /\ NoEvent
    \/ \E k \in DOMAIN analyses : AnalysisReject(k) /\ NoEvent
    \/ \E k \in DOMAIN history : HistorySelect(k) /\ NoEvent
    \/ (events < MaxEvents /\ PunchAlphaClick /\ Event)
    \/ (events < MaxEvents /\ sourceImage = Null /\ handleGenerate /\ Event)
    \/ \E i \in DOMAIN gens, r \in EditOutputs \cup EmptyOutputs :
          EditResolve(i, r) /\ NoEvent
    \/ \E i \in DOMAIN gens, e \in EditRejections : EditReject(i, e) /\ NoEvent
    \/ \E i \in DOMAIN gens, m \in TransparencyErrors :
          TransparencyReject(i, m) /\ NoEvent
    \/ \E i \in DOMAIN gens : OnloadThrows(i) /\ NoEvent
    \/ \E i \in DOMAIN gens, finalCtx \in BOOLEAN :
          GenerateSuccess(i, finalCtx, 0) /\ NoEvent

Spec == Init /\ [][Next]_vars

-----------------------------------------------------------------------------
(* SpecSteps: the actions of Spec, for at most MaxEventsSteps selections    *)
(* and clicks.  The claims about what a single handler or continuation does *)
(* are checked under it.                                                     *)

NextSteps ==
    \/ \E base64 \in Images :
          events < MaxEventsSteps /\ handleImageSelect(base64) /\ Event
    \/ \E img \in Images : ImageOnload(img) /\ NoEvent
    \/ \E k \in DOMAIN analyses : AnalysisResolve(k) /\ NoEvent
    \/ \E k \in DOMAIN analyses : AnalysisReject(k) /\ NoEvent
    \/ \E k \in DOMAIN history : HistorySelect(k) /\ NoEvent
    \/ (events < MaxEventsSteps /\ PunchAlphaClick /\ Event)
    \/ (events < MaxEventsSteps /\ sourceImage = Null /\ handleGenerate /\ Event)
    \/ \E i \in DOMAIN gens, r \in EditOutputs \cup EmptyOutputs :
          EditResolve(i, r) /\ NoEvent
    \/ \E i \in DOMAIN gens, e \in EditRejections : EditReject(i, e) /\ NoEvent
    \/ \E i \in DOMAIN gens, m \in TransparencyErrors :
          TransparencyReject(i, m) /\ NoEvent
    \/ \E i \in DOMAIN gens : OnloadThrows(i) /\ NoEvent
    \/ \E i \in DOMAIN gens, finalCtx \in BOOLEAN :
          GenerateSuccess(i, finalCtx, 0) /\ NoEvent

SpecSteps == Init /\ [][NextSteps]_vars

-----------------------------------------------------------------------------
(* SpecLive: SpecSteps, in which every call settles.  The promise of        *)
(* editImageWithGemini resolves or rejects, and the image                   *)
(* processImageTransparency decodes fires onload or onerror: a handler that *)
(* can run is not postponed for ever.  What the code does with the outcome  *)
(* (a catch block or an onload handler that throws) is not assumed away.    *)
(* Nothing makes the user select or click.                                  *)

\* The edit call of some invocation of handleGenerate resolves or rejects
EditSettles ==
    \E i \in DOMAIN gens :
       \/ \E r \in EditOutputs \cup EmptyOutputs : EditResolve(i, r) /\ NoEvent
       \/ \E e \in EditRejections : EditReject(i, e) /\ NoEvent

\* The decode of some invocation's image fails (onerror) or succeeds
\* (onload, which rejects, resolves or throws)
DecodeSettles ==
    \E i \in DOMAIN gens :
       \/ \E m \in TransparencyErrors : TransparencyReject(i, m) /\ NoEvent
       \/ \E finalCtx \in BOOLEAN : GenerateSuccess(i, finalCtx, 0) /\ NoEvent
       \/ OnloadThrows(i) /\ NoEvent

SpecLive ==
    /\ Init
    /\ [][NextSteps]_vars
    /\ WF_vars(EditSettles)
    /\ WF_vars(DecodeSettles)

-----------------------------------------------------------------------------
(* SpecPrompt: as Spec, with the preset buttons and without failures: the   *)
(* prompt and the source image change while a generation is suspended.      *)

NextPrompt ==
    \/ \E base64 \in Images :
          events < MaxEventsPrompt /\ handleImageSelect(base64) /\ Event
    \/ \E img \in Images : ImageOnload(img) /\ NoEvent
    \/ \E k \in DOMAIN analyses : AnalysisResolve(k) /\ NoEvent
    \/ \E k \in 1..Len(PRESETS) : setPrompt(PRESETS[k]) /\ NoEvent
    \/ \E k \in DOMAIN history : HistorySelect(k) /\ NoEvent
    \/ (events < MaxEventsPrompt /\ PunchAlphaClick /\ Event)
    \/ \E i \in DOMAIN gens, r \in EditOutputs : EditResolve(i, r) /\ NoEvent
    \/ \E i \in DOMAIN gens : GenerateSuccess(i, TRUE, 0) /\ NoEvent

SpecPrompt == Init /\ [][NextPrompt]_vars

-----------------------------------------------------------------------------
(* SpecHist: one image is selected and generation after generation         *)
(* succeeds, up to MaxPushesHist of them, while the clock advances.         *)

NextHist ==
    \/ \E base64 \in Images :
          sourceImage = Null /\ handleImageSelect(base64) /\ NoEvent
    \/ \E img \in Images : ImageOnload(img) /\ NoEvent
    \/ \E k \in DOMAIN analyses : AnalysisResolve(k) /\ NoEvent
    \/ /\ Len(pushLog) + Len(gens) < MaxPushesHist
       /\ PunchAlphaClick
       /\ NoEvent
    \/ \E i \in DOMAIN gens : EditResolve(i, "editTiny") /\ NoEvent
    \/ \E i \in DOMAIN gens, tick \in {0, 1} :
          /\ clock + tick <= ClockStart + MaxTicksHist
          /\ GenerateSuccess(i, TRUE, tick)
          /\ NoEvent
    \/ (clock < ClockStart + MaxTicksHist /\ Tick /\ NoEvent)

SpecHist == Init /\ [][NextHist]_vars

-----------------------------------------------------------------------------
(* SpecPixel: one decoded image of at most MaxPixels pixels goes through    *)
(* the loop of processImageTransparency, and then either through the loop   *)
(* once more or through resize.                                             *)

InitPixel == AppInit /\ \E img \in DecodedImages : canvas = Drawn(img)

NextPixel ==
    \/ ChromaKey
    \/ ChromaKeyAgain
    \/ \E target \in Targets, finalCtx \in BOOLEAN : ResizeCanvas(target, finalCtx)

SpecPixel == InitPixel /\ [][NextPixel]_vars

-----------------------------------------------------------------------------
(* SpecIds: overlapping generations while the clock advances.  Every        *)
(* generate request is made before the first generation completes (a        *)
(* source image selected in between enables the button again), so that two  *)
(* entries are pushed only by generations that were in flight together.     *)
(* An edit call takes longer than one reading of the clock: none resolves   *)
(* before the clock has advanced.                                           *)

NextIds ==
    \/ \E base64 \in Images :
          events < MaxEventsIds /\ handleImageSelect(base64) /\ Event
    \/ \E img \in Images : ImageOnload(img) /\ NoEvent
    \/ \E k \in DOMAIN analyses : AnalysisResolve(k) /\ NoEvent
    \/ /\ events < MaxEventsIds
       /\ pushLog = <<>>
       /\ PunchAlphaClick
       /\ Event
    \/ \E i \in DOMAIN gens :
          clock > ClockStart /\ EditResolve(i, "editTiny") /\ NoEvent
    \/ \E i \in DOMAIN gens, tick \in {0, 1} :
          /\ clock + tick <= ClockStart + MaxTicksIds
          /\ GenerateSuccess(i, TRUE, tick)
          /\ NoEvent
    \/ (clock < ClockStart + MaxTicksIds /\ Tick /\ NoEvent)

SpecIds == Init /\ [][NextIds]_vars

-----------------------------------------------------------------------------
(* Steps, as seen by the properties below *)

\* Invocation i of handleGenerate completes successfully in this step
SuccessStep(i) ==
    \E finalCtx \in BOOLEAN, tick \in {0, 1} : GenerateSuccess(i, finalCtx, tick)

\* Invocation i of handleGenerate fails in this step with an error object:
\* the catch block runs to its end
FailureStep(i) ==
    \/ \E m \in EditErrors : EditReject(i, [message |-> m])
    \/ \E m \in TransparencyErrors : TransparencyReject(i, m)

\* Invocation i of handleGenerate is rejected with null or undefined in this
\* step: the catch block throws
CatchThrowsStep(i) == EditReject(i, NullRejection)

-----------------------------------------------------------------------------
(* Claims about the generation state machine, checked under Spec *)

\* C1: if a source image was selected while the edit call of a generation
\* was outstanding, the later successful completion of that generation
\* leaves status, generated image, error and history as they were.
C1_StaleResultNotApplied ==
    [][\A i \in DOMAIN gens :
          (gens[i].selAfter /\ SuccessStep(i))
             => UNCHANGED <<status, generatedImage, error, history>>]_vars

\* C2: at most one edit call is outstanding, and a click on PUNCH ALPHA
\* while one is outstanding starts no edit call and changes no state.
C2_AtMostOneInFlight ==
    [][/\ Cardinality(EditOutstanding') <= 1
       /\ (EditOutstanding # {} /\ PunchAlphaClick)
             => UNCHANGED <<appState, gens>>]_vars

\* C3: every generated image a successful generation stored has the native
\* width and height of the source image submitted with that request.
C3_GeneratedHasSourceDims ==
    \A k \in DOMAIN pushLog :
        /\ pushLog[k].generated.w = NativeDims(pushLog[k].original).w
        /\ pushLog[k].generated.h = NativeDims(pushLog[k].original).h

\* C7: a failing generation sets status ERROR with a non-empty message and
\* leaves the history as it was before its generate request.
C7_FailureKeepsHistory ==
    [][\A i \in DOMAIN gens :
          FailureStep(i) =>
             /\ status' = "ERROR"
             /\ error' # Null /\ error' # ""
             /\ history' = gens[i].histBefore]_vars

\* C8: whenever a failure is applied, the generated image is absent in the
\* resulting state.
C8_ErrorHasNoGeneratedImage ==
    [][\A i \in DOMAIN gens :
          FailureStep(i) => generatedImage' = NoImage]_vars

\* C9 as stated: a generated image that was current just before the generate
\* request is current again after the failure of that generation.
C9_PreviousImageKept ==
    [][\A i \in DOMAIN gens :
          (FailureStep(i) /\ gens[i].genBefore # NoImage)
             => generatedImage' = gens[i].genBefore]_vars

\* C9 as amended: the failure step itself leaves the generated image as it
\* was immediately before the failure was applied.
C9_FailureStepKeepsImage ==
    [][\A i \in DOMAIN gens :
          /\ FailureStep(i) =>
                /\ status' = "ERROR"
                /\ generatedImage' = generatedImage
          /\ CatchThrowsStep(i) => generatedImage' = generatedImage]_vars

\* A failure has just been applied while a generated image was current
C9_Witness ==
    /\ last.op = "genFail"
    /\ status = "ERROR"
    /\ generatedImage # NoImage

\* C10: selecting a source image, from any status, gives status IDLE, the
\* new image as source, no generated image, no error, no analysis, and the
\* history unchanged.
C10_SelectResets ==
    [][\A base64 \in Images :
          handleImageSelect(base64) =>
             /\ status' = "IDLE"
             /\ sourceImage' = base64
             /\ generatedImage' = NoImage
             /\ error' = Null
             /\ analysis' = Null
             /\ history' = history]_vars

\* An image has just been selected in status SUCCESS, with entries in
\* history
C10_Witness ==
    /\ last = [op |-> "select", pre |-> "SUCCESS"]
    /\ status = "IDLE"
    /\ history # <<>>

-----------------------------------------------------------------------------
(* Claims about the history list, checked under SpecHist *)

\* C4: the history never holds more than 10 entries.
C4_HistoryAtMostTen == Len(history) <= 10

\* Ten entries are held after more than ten successful generations
C4_Witness == Len(history) = 10 /\ Len(pushLog) > 10

\* C5: after n successful generations the history holds the last
\* min(n, 10) entries pushed, newest first.
C5_NewestFirstOldestEvicted ==
    LET n == Len(pushLog) IN
    /\ Len(history) = (IF n < 10 THEN n ELSE 10)
    /\ \A k \in DOMAIN history : history[k] = pushLog[n - k + 1]

\* After 11 pushes the 11th is first, the 2nd is last, and the 1st, which
\* differs from every entry held, is gone
C5_Witness ==
    /\ Len(pushLog) = 11
    /\ history[1] = pushLog[11]
    /\ history[Len(history)] = pushLog[2]
    /\ \A k \in DOMAIN history : history[k] # pushLog[1]

-----------------------------------------------------------------------------
(* Claims about a successful generation, checked under SpecPrompt *)

\* C6: a successful completion, in one step, sets status SUCCESS, makes the
\* result the generated image and puts exactly one new entry at the front
\* of the history, with the source image and the prompt of the request and
\* the stored result as its generated image.
C6_SuccessIsAtomic ==
    [][\A i \in DOMAIN gens :
          SuccessStep(i) =>
             /\ status' = "SUCCESS"
             /\ generatedImage' # NoImage
             /\ generatedImage'.from = gens[i].result
             /\ Len(history') = (IF Len(history) < 10 THEN Len(history) + 1 ELSE 10)
             /\ history'[1].original = gens[i].src
             /\ history'[1].promptUsed = gens[i].prompt
             /\ history'[1].generated = generatedImage'
             /\ \A k \in 2..Len(history') : history'[k] = history[k - 1]]_vars

\* A generation has just succeeded after both the prompt and the source
\* image were changed while it was suspended
C6_Witness ==
    /\ last.op = "genOk"
    /\ status = "SUCCESS"
    /\ history[1].promptUsed # prompt
    /\ history[1].original # sourceImage

-----------------------------------------------------------------------------
(* Claims about requests and selections, checked under SpecSteps; C14 is    *)
(* checked under Spec                                                       *)

\* C11: a generate request with no source image present changes neither
\* status, generated image, error, analysis nor history, and starts no edit
\* call.
C11_NoSourceIsNoOp ==
    [][(sourceImage = Null /\ (handleGenerate \/ PunchAlphaClick))
          => UNCHANGED <<status, generatedImage, error, analysis, history,
                         gens, sourceImage>>]_vars

\* handleGenerate has just returned early for want of a source image
C11_Witness ==
    /\ last.op = "generateNoSource"
    /\ sourceImage = Null
    /\ status = "IDLE"
    /\ gens = <<>>

\* C12: a generate request with a source image present, from IDLE, SUCCESS
\* or ERROR, sets status PROCESSING, clears error and generated image,
\* keeps source image and history, and starts exactly one edit call; a
\* failed call is not retried.
C12_GenerateStartsOneCall ==
    [][/\ (sourceImage # Null /\ status # "PROCESSING" /\ PunchAlphaClick) =>
             /\ status' = "PROCESSING"
             /\ error' = Null
             /\ generatedImage' = NoImage
             /\ sourceImage' = sourceImage
             /\ history' = history
             /\ Len(gens') = Len(gens) + 1
             /\ \A i \in DOMAIN gens : gens'[i] = gens[i]
             /\ gens'[Len(gens')].pc = "edit"
             /\ gens'[Len(gens')].src = sourceImage
       /\ \A i \in DOMAIN gens :
             FailureStep(i) => Cardinality(EditOutstanding') <=
                                  Cardinality(EditOutstanding)]_vars

\* A generate request has just been accepted in status ERROR
C12_Witness ==
    /\ last = [op |-> "generate", pre |-> "ERROR"]
    /\ status = "PROCESSING"
    /\ error = Null
    /\ Len(gens) = 1

\* C13: selecting a history entry, from any status, gives status SUCCESS
\* with the entry's original as source and its generated image as generated
\* image; no call is started and the history is unchanged.
C13_HistorySelectRestores ==
    [][\A k \in DOMAIN history :
          HistorySelect(k) =>
             /\ status' = "SUCCESS"
             /\ sourceImage' = history[k].original
             /\ generatedImage' = history[k].generated
             /\ UNCHANGED <<gens, analyses, loads, history>>]_vars

\* A history entry has just been selected while a generation was in flight
C13_Witness ==
    /\ last = [op |-> "historySelect", pre |-> "PROCESSING"]
    /\ status = "SUCCESS"
    /\ gens # <<>>
    /\ generatedImage = history[1].generated

\* C14: the analysis text, when present, is the result of the analysis
\* call issued for the current source image.
C14_AnalysisIsOfCurrentSource ==
    analysis # Null => analysis = SceneOf(sourceImage)

\* C15: a failing analysis call changes neither status, error, generated
\* image nor history.
C15_AnalysisFailureIsolated ==
    [][\A k \in DOMAIN analyses :
          AnalysisReject(k) =>
             UNCHANGED <<status, error, generatedImage, history>>]_vars

\* An analysis call has just failed while a generation was in flight
C15_Witness ==
    /\ last.op = "analysisFail"
    /\ status = "PROCESSING"
    /\ gens # <<>>

-----------------------------------------------------------------------------
(* Claims about the pixels, checked under SpecPixel *)

\* C16: in the buffer the extraction loop leaves, every pixel (r, g, b, a)
\* with g > r + 10, g > b + 10 and g > 40 is (r, g, b, 0), and every other
\* pixel is as it was in all four channels.
C16_PixelRule ==
    canvas.pc = "keyed" =>
       /\ Len(canvas.imageData) = Len(canvas.input)
       /\ \A p \in 0..(canvas.w * canvas.h - 1) :
             LET r == canvas.input[4 * p + 1]
                 g == canvas.input[4 * p + 2]
                 b == canvas.input[4 * p + 3]
                 a == canvas.input[4 * p + 4]
                 after == SubSeq(canvas.imageData, 4 * p + 1, 4 * p + 4)
             IN  IF g > r + 10 /\ g > b + 10 /\ g > 40
                 THEN after = <<r, g, b, 0>>
                 ELSE after = <<r, g, b, a>>

\* A pixel just over the thresholds has been keyed and its neighbour
\* exactly on them (g = r + 10, g = 40) has been left alone
C16_Witness ==
    /\ canvas.pc = "keyed"
    /\ canvas.input = <<30, 42, 30, 128, 30, 40, 30, 255>>
    /\ canvas.imageData = <<30, 42, 30, 0, 30, 40, 30, 255>>

\* C17: the extraction applied to its own result gives that result again:
\* the second loop changes nothing in the buffer it is given, and the
\* canvas holds after the second call what it held after the first.
C17_ExtractionIdempotent ==
    canvas.pc = "rekeyed" =>
       (canvas.imageData = canvas.first /\ canvas.data = canvas.first)

\* The extraction has run twice on a buffer of two pixels the first run
\* changed
C17_Witness ==
    /\ canvas.pc = "rekeyed"
    /\ Len(canvas.input) = 8
    /\ canvas.first # canvas.input

\* C18: when the target is absent or equals the buffer's width and height
\* the encoded image has the pixels of the extracted buffer (the buffer the
\* loop left) at its own size; in every other case it has the target's
\* width and height.
C18_ResampledExactlyWhenNeeded ==
    canvas.pc = "encoded" =>
       LET absent == canvas.target.w = Undefined \/ canvas.target.h = Undefined
           same == canvas.target.w = canvas.w /\ canvas.target.h = canvas.h
       IN  IF absent \/ same
           THEN canvas.out = [from |-> canvas.imageData, w |-> canvas.w,
                              h |-> canvas.h]
           ELSE canvas.out.w = canvas.target.w /\ canvas.out.h = canvas.target.h

-----------------------------------------------------------------------------
(* Claims about the ids of the history entries, checked under SpecIds *)

\* C19: no two entries of the history have the same id, and no two entries
\* ever pushed have the same id.
C19_IdsUnique ==
    /\ \A j, k \in DOMAIN history :
          j # k => history[j].id # history[k].id
    /\ \A j, k \in DOMAIN pushLog :
          j # k => pushLog[j].id # pushLog[k].id

-----------------------------------------------------------------------------
(* Claims about progress, checked under SpecLive *)

\* C20: while the status is PROCESSING a generation is outstanding, and
\* whenever the status is PROCESSING it is later SUCCESS, ERROR or IDLE.
C20_ProcessingEnds ==
    /\ [](status = "PROCESSING" => gens # <<>>)
    /\ (status = "PROCESSING") ~> (status \in {"SUCCESS", "ERROR", "IDLE"})

-----------------------------------------------------------------------------
(* Claims about the states of the application, checked under SpecSteps *)

\* C21: an error message is present only while the status is ERROR.
C21_ErrorOnlyInErrorStatus ==
    error # Null => status = "ERROR"

\* C22: while the status is SUCCESS a generated image and a source image
\* are present.
C22_SuccessHasImages ==
    status = "SUCCESS" => (generatedImage # NoImage /\ sourceImage # Null)

\* A generation has just succeeded for a source image that was replaced,
\* which cleared the generated image, while its edit call was outstanding
C22_Witness ==
    /\ last.op = "genOk"
    /\ status = "SUCCESS"
    /\ gens = <<>>
    /\ history[1].original # sourceImage
    /\ generatedImage = history[1].generated

====
